---- MODULE Spec2Model ----
(***************************************************************************)
(* Follow-up actions, complaints and analytics of the complaint system     *)
(* (backend/app/api/follow_up_actions.py, complaints.py, analytics.py).    *)
(*                                                                         *)
(* The state is the committed content of the relational tables.  Every    *)
(* request handler runs on its own SQLAlchemy session (get_db) and is one  *)
(* atomic step.  A handler is an operator that maps the current store and  *)
(* the request to a response: the outcome and the store it leaves behind   *)
(* (what it committed; what it left uncommitted when it raised is          *)
(* discarded by db.close()).  The actions of the specification serve the   *)
(* requests; the properties also examine the response of every request     *)
(* that could be served in a reachable state.                              *)
(*                                                                         *)
(* Nullable columns are modelled as sequences of length 0 or 1:            *)
(* None == <<>>, Some(v) == <<v>>.                                          *)
(***************************************************************************)
EXTENDS Integers, Sequences, FiniteSets, TLC

VARIABLES
    complaints,    \* complaints table, row id = index
    persons,       \* responsible_persons table, row id = index
    actions,       \* follow_up_actions table, row id = index
    history,       \* action_history table, row id = index
    dependencies,  \* action_dependencies table, row id = index
    now,           \* value the next datetime.now() returns
    inflight       \* per worker: the request it is in the middle of handling

vars == <<complaints, persons, actions, history, dependencies, now, inflight>>

(* the store as one value *)
Store ==
    [complaints |-> complaints, persons |-> persons, actions |-> actions,
     history |-> history, dependencies |-> dependencies, now |-> now]

(* the server processes handling requests against the one database *)
Workers == {1, 2}

Idle == [op |-> "idle"]

----------------------------------------------------------------------------
(* Bounds of the exploration *)

MaxHistory == 3

MaxDeps == 2

MaxBulkIds == 2

CapExtra == 1

MaxComplaints == 2

MaxComplaintActions == 1

MaxReorders == 1

(* Program constants *)

MaxActionsPerComplaint == 10

----------------------------------------------------------------------------
(* Values *)

None == <<>>

Some(v) == <<v>>

ActionStatus == {"open", "pending", "in_progress", "blocked", "escalated", "closed"}

ActionPriority == {"low", "medium", "high", "critical"}

(* complaint ids a request may name; only those in DOMAIN complaints exist *)
ComplaintIds == {1, 2, 3}

PersonNames == {"AL", "JF", "ZZ"}

Actors == {"System"}

(* str() of a member of a (str, Enum) class is "<Class>.<MEMBER>" *)
ActionStatusStr ==
    [open |-> "ActionStatus.OPEN", pending |-> "ActionStatus.PENDING",
     in_progress |-> "ActionStatus.IN_PROGRESS", blocked |-> "ActionStatus.BLOCKED",
     escalated |-> "ActionStatus.ESCALATED", closed |-> "ActionStatus.CLOSED"]

ActionPriorityStr ==
    [low |-> "ActionPriority.LOW", medium |-> "ActionPriority.MEDIUM",
     high |-> "ActionPriority.HIGH", critical |-> "ActionPriority.CRITICAL"]

(* the mutable fields of FollowUpActionUpdate, in declaration order *)
UpdateFields == <<"responsible_person", "status", "priority", "notes", "completion_percentage">>

(* request values for each field of FollowUpActionUpdate *)
UpdateValues ==
    [responsible_person |-> PersonNames,
     status |-> ActionStatus,
     priority |-> {"low", "high"},
     notes |-> {None, Some("checked")},
     completion_percentage |-> {0, 50}]

----------------------------------------------------------------------------
(* Queries *)

Range(s) == {s[i] : i \in DOMAIN s}

Max(S) == CHOOSE x \in S : \A y \in S : y <= x

Mutant_ActionsOf(complaint_id) ==
    {i \in DOMAIN actions :
        actions[i].complaint_id = complaint_id /\ actions[i].status # "cancelled"}

(* db.query(FollowUpAction).filter(complaint_id == c): the row ids *)
ActionsOf(complaint_id) ==
    {i \in DOMAIN actions : actions[i].complaint_id = complaint_id}

(* .filter(and_(FollowUpAction.id == action_id, complaint_id == complaint_id)).first() *)
FindAction(action_id, complaint_id) ==
    action_id \in DOMAIN actions /\ actions[action_id].complaint_id = complaint_id

(* .filter(and_(ResponsiblePerson.name == name, is_active == True)).first() *)
ActivePerson(name) ==
    \E i \in DOMAIN persons : persons[i].name = name /\ persons[i].is_active

(* the response of a handler: its outcome and the store it leaves *)
Respond(result, s) == [result |-> result, store |-> s]

(* the handler raised HTTPException before any commit: get_db closes the
   session and the store keeps its committed content *)
Reject(result) == Respond(result, Store)

----------------------------------------------------------------------------
(* Helper functions *)

HistoryRow(action_id, field, old_val, new_val, changed_by, reason) ==
    [action_id |-> action_id, field_changed |-> field, old_value |-> old_val,
     new_value |-> new_val, changed_by |-> changed_by, change_reason |-> reason]

Mutant_create_action_history(h, action_id, field, old_val, new_val, changed_by, reason) ==
    LET row == HistoryRow(action_id, field, old_val, new_val, changed_by, reason)
        same == {k \in DOMAIN h : h[k].action_id = action_id /\ h[k].field_changed = field}
    IN IF same = {} THEN Append(h, row) ELSE [h EXCEPT ![Max(same)] = row]

create_action_history(h, action_id, field, old_val, new_val, changed_by, reason) ==
    Append(h, HistoryRow(action_id, field, old_val, new_val, changed_by, reason))

handle_status_transition(action, new_status, t) ==
    IF new_status = "in_progress" /\ action.started_at = None
    THEN [action EXCEPT !.started_at = Some(t)]
    ELSE IF new_status = "closed" /\ action.completed_at = None
    THEN [action EXCEPT !.completed_at = Some(t), !.completion_percentage = 100]
    ELSE action

Mutant_get_next_action_number(complaint_id) ==
    LET numbers == {actions[i].action_number : i \in ActionsOf(complaint_id)}
    IN IF numbers = {} THEN 1 ELSE Max(numbers)

get_next_action_number(complaint_id) ==
    LET numbers == {actions[i].action_number : i \in ActionsOf(complaint_id)}
        max_number == IF numbers = {} THEN 0 ELSE Max(numbers)
    IN max_number + 1

Mutant_validate_action_dependencies(action_id, complaint_id) ==
    \A d \in DOMAIN dependencies :
        dependencies[d].action_id = action_id =>
            LET target == dependencies[d].depends_on_action_id
            IN ~(target \in DOMAIN actions /\ actions[target].status = "open")

validate_action_dependencies(action_id, complaint_id) ==
    \A d \in DOMAIN dependencies :
        dependencies[d].action_id = action_id =>
            LET target == dependencies[d].depends_on_action_id
            IN ~(target \in DOMAIN actions /\ actions[target].status # "closed")

(* datetime.now() advances whenever a handler stamped a timestamp *)
Tick(before, after) ==
    IF before.started_at # after.started_at \/ before.completed_at # after.completed_at
    THEN now + 1 ELSE now

----------------------------------------------------------------------------
(* str() as the audit trail applies it *)

(* str(old_val) of a value read from the row; None stays None *)
StrStored(field, v) ==
    CASE field = "completion_percentage" -> Some(ToString(v))
      [] field = "notes" -> v
      [] OTHER -> Some(v)

(* str(new_val) of a value of the parsed request: status and priority are
   enum members there *)
StrRequested(field, v) ==
    CASE field = "completion_percentage" -> Some(ToString(v))
      [] field = "notes" -> v
      [] field = "status" -> Some(ActionStatusStr[v])
      [] field = "priority" -> Some(ActionPriorityStr[v])
      [] OTHER -> Some(v)

----------------------------------------------------------------------------
(* POST /  create_action *)

Mutant_ActionLimitReached(complaint_id) ==
    Cardinality(ActionsOf(complaint_id)) > MaxActionsPerComplaint

ActionLimitReached(complaint_id) ==
    Cardinality(ActionsOf(complaint_id)) >= MaxActionsPerComplaint

NewAction(complaint_id, action_number, action) ==
    [complaint_id |-> complaint_id, action_number |-> action_number,
     responsible_person |-> action.responsible_person, status |-> "open",
     priority |-> action.priority, notes |-> action.notes,
     completion_percentage |-> 0, started_at |-> None, completed_at |-> None]

create_action(action, complaint_id, changed_by) ==
    IF complaint_id \notin DOMAIN complaints
    THEN Reject("NotFound")
    ELSE IF ActionLimitReached(complaint_id)
    THEN Reject("LimitExceeded")
    ELSE IF ~ActivePerson(action.responsible_person)
    THEN Reject("InvalidReference")
    ELSE LET action_number == get_next_action_number(complaint_id)
             id == Len(actions) + 1
         IN Respond("ok", [Store EXCEPT
                !.actions = Append(@, NewAction(complaint_id, action_number, action)),
                !.history = create_action_history(@, id, "created", None,
                                Some("Action #" \o ToString(action_number) \o " created"),
                                changed_by, None)])

----------------------------------------------------------------------------
(* PUT /{action_id}  update_action *)

(* the fields of the request whose value differs from the row, in dict order *)
ChangedFields(row, update_data) ==
    SelectSeq(UpdateFields, LAMBDA f : f \in DOMAIN update_data /\ row[f] # update_data[f])

Mutant_ApplyChanges(row, update_data, changes) ==
    [f \in DOMAIN row |->
        IF f \in Range(changes) /\ ~(f = "status" /\ row.status = "cancelled")
        THEN update_data[f] ELSE row[f]]

(* the setattr calls of the diff loop *)
ApplyChanges(row, update_data, changes) ==
    [f \in DOMAIN row |-> IF f \in Range(changes) THEN update_data[f] ELSE row[f]]

Mutant_close_session(committed, pending) == pending

(* db.close() in get_db without a commit: the pending state is discarded *)
close_session(committed, pending) == committed

UpdateAudit(h, action_id, row, update_data, changes, changed_by, reason) ==
    h \o [i \in 1..Len(changes) |->
            HistoryRow(action_id, changes[i],
                       StrStored(changes[i], row[changes[i]]),
                       StrRequested(changes[i], update_data[changes[i]]),
                       changed_by, reason)]

update_action(action_update, complaint_id, action_id, changed_by) ==
    IF ~FindAction(action_id, complaint_id)
    THEN Reject("NotFound")
    ELSE LET db_action == actions[action_id]
             changes == ChangedFields(db_action, action_update)
             assigned == ApplyChanges(db_action, action_update, changes)
             pending == IF "status" \in Range(changes)
                        THEN handle_status_transition(assigned, action_update.status, now)
                        ELSE assigned
         IN IF /\ "responsible_person" \in Range(changes)
               /\ ~ActivePerson(action_update.responsible_person)
            THEN Respond("InvalidReference", [Store EXCEPT
                     !.actions[action_id] = close_session(db_action, pending)])
            ELSE IF changes # <<>>
            THEN Respond("ok", [Store EXCEPT
                     !.actions[action_id] = pending,
                     !.history = UpdateAudit(@, action_id, db_action, action_update,
                                             changes, changed_by, None),
                     !.now = Tick(db_action, pending)])
            ELSE Respond("ok", Store)

----------------------------------------------------------------------------
(* DELETE /{action_id}  delete_action *)

Mutant_delete_action(complaint_id, action_id, changed_by) ==
    IF ~FindAction(action_id, complaint_id)
    THEN Reject("NotFound")
    ELSE LET old_status == actions[action_id].status
         IN Respond("ok", [Store EXCEPT
                !.actions[action_id].status = "cancelled",
                !.dependencies = SelectSeq(@, LAMBDA d :
                    d.action_id # action_id /\ d.depends_on_action_id # action_id),
                !.history = create_action_history(@, action_id, "status",
                                Some(old_status), Some("cancelled"), changed_by,
                                Some("Action deleted"))])

delete_action(complaint_id, action_id, changed_by) ==
    IF ~FindAction(action_id, complaint_id)
    THEN Reject("NotFound")
    ELSE LET old_status == actions[action_id].status
         IN Respond("ok", [Store EXCEPT
                !.actions[action_id].status = "cancelled",
                !.history = create_action_history(@, action_id, "status",
                                Some(old_status), Some("cancelled"), changed_by,
                                Some("Action deleted"))])

----------------------------------------------------------------------------
(* POST /{action_id}/reorder  reorder_actions *)

Mutant_RenumberSwap(number, id, action_id, old_position, new_position) ==
    IF id = action_id THEN new_position
    ELSE IF number = new_position THEN old_position
    ELSE number

Mutant_Renumber(number, id, action_id, old_position, new_position) ==
    IF id = action_id THEN new_position
    ELSE IF old_position < new_position
    THEN (IF old_position < number /\ number < new_position THEN number - 1 ELSE number)
    ELSE (IF new_position <= number /\ number < old_position THEN number + 1 ELSE number)

(* the renumbering of one row of all_actions *)
Renumber(number, id, action_id, old_position, new_position) ==
    IF id = action_id THEN new_position
    ELSE IF old_position < new_position
    THEN (IF old_position < number /\ number <= new_position THEN number - 1 ELSE number)
    ELSE (IF new_position <= number /\ number < old_position THEN number + 1 ELSE number)

(* new_position: int = Query(..., ge=1, le=10): the framework answers 422
   before the handler runs *)
MaxNewPosition == 10

ValidPositionParam(new_position) == new_position >= 1 /\ new_position <= MaxNewPosition

Mutant_BeyondLast(new_position, all_actions) == new_position >= Cardinality(all_actions)

BeyondLast(new_position, all_actions) == new_position > Cardinality(all_actions)

reorder_actions(complaint_id, action_id, new_position, changed_by) ==
    IF ~ValidPositionParam(new_position)
    THEN Reject("ValidationError")
    ELSE IF ~FindAction(action_id, complaint_id)
    THEN Reject("NotFound")
    ELSE LET all_actions == ActionsOf(complaint_id)
             old_position == actions[action_id].action_number
         IN IF BeyondLast(new_position, all_actions)
            THEN Reject("InvalidPosition")
            ELSE IF old_position # new_position
            THEN Respond("ok", [Store EXCEPT
                     !.actions = [i \in DOMAIN actions |->
                         IF i \in all_actions
                         THEN [actions[i] EXCEPT !.action_number =
                                  Renumber(@, i, action_id, old_position, new_position)]
                         ELSE actions[i]],
                     !.history = create_action_history(@, action_id, "action_number",
                                     Some(ToString(old_position)), Some(ToString(new_position)),
                                     changed_by, Some("Action reordered"))])
            ELSE Respond("ok", Store)

----------------------------------------------------------------------------
(* PATCH /bulk-update  bulk_update_actions *)

(* one iteration of the loop over bulk_update.action_ids; acc is the response
   so far: the store, updated_count and failed_updates *)
Mutant_BulkItem(acc, action_id, complaint_id, update_data, changed_by) ==
    IF ~(/\ action_id \in DOMAIN acc.store.actions
         /\ acc.store.actions[action_id].complaint_id = complaint_id)
    THEN [acc EXCEPT !.failed_updates =
              Append(@, [action_id |-> action_id, error |-> "Action not found"])]
    ELSE LET action == acc.store.actions[action_id]
             changes == SelectSeq(UpdateFields, LAMBDA f : f \in DOMAIN update_data)
         IN [acc EXCEPT
               !.store.actions[action_id] = ApplyChanges(action, update_data, changes),
               !.store.history = UpdateAudit(@, action_id, action, update_data, changes,
                                             changed_by, Some("Bulk update")),
               !.updated_count = @ + 1]

BulkItem(acc, action_id, complaint_id, update_data, changed_by) ==
    IF ~(/\ action_id \in DOMAIN acc.store.actions
         /\ acc.store.actions[action_id].complaint_id = complaint_id)
    THEN [acc EXCEPT !.failed_updates =
              Append(@, [action_id |-> action_id, error |-> "Action not found"])]
    ELSE LET action == acc.store.actions[action_id]
             changes == ChangedFields(action, update_data)
         IN [acc EXCEPT
               !.store.actions[action_id] = ApplyChanges(action, update_data, changes),
               !.store.history = UpdateAudit(@, action_id, action, update_data, changes,
                                             changed_by, Some("Bulk update")),
               !.updated_count = @ + 1]

RECURSIVE Mutant_BulkLoop(_, _, _, _, _)
Mutant_BulkLoop(acc, action_ids, complaint_id, update_data, changed_by) ==
    IF action_ids = <<>> THEN acc
    ELSE LET next == BulkItem(acc, Head(action_ids), complaint_id, update_data, changed_by)
         IN IF next.updated_count = acc.updated_count THEN next
            ELSE Mutant_BulkLoop(next, Tail(action_ids), complaint_id, update_data, changed_by)

RECURSIVE BulkLoop(_, _, _, _, _)
BulkLoop(acc, action_ids, complaint_id, update_data, changed_by) ==
    IF action_ids = <<>> THEN acc
    ELSE BulkLoop(BulkItem(acc, Head(action_ids), complaint_id, update_data, changed_by),
                  Tail(action_ids), complaint_id, update_data, changed_by)

bulk_update_actions(bulk_update, complaint_id, changed_by) ==
    BulkLoop([result |-> "ok", store |-> Store, updated_count |-> 0, failed_updates |-> <<>>],
             bulk_update.action_ids, complaint_id, bulk_update.updates, changed_by)

----------------------------------------------------------------------------
(* POST /{action_id}/dependencies  create_dependency *)

Mutant_existing_dep(action_id, depends_on_action_id) ==
    \E d \in DOMAIN dependencies :
        /\ dependencies[d].action_id = action_id
        /\ dependencies[d].depends_on_action_id = depends_on_action_id

(* an edge depends_on_action_id -> action_id is already stored *)
existing_dep(action_id, depends_on_action_id) ==
    \E d \in DOMAIN dependencies :
        /\ dependencies[d].action_id = depends_on_action_id
        /\ dependencies[d].depends_on_action_id = action_id

create_dependency(dependency, complaint_id, action_id) ==
    IF \/ ~FindAction(action_id, complaint_id)
       \/ ~FindAction(dependency.depends_on_action_id, complaint_id)
    THEN Reject("NotFound")
    ELSE IF existing_dep(action_id, dependency.depends_on_action_id)
    THEN Reject("CircularDependency")
    ELSE Respond("ok", [Store EXCEPT
             !.dependencies = Append(@,
                 [action_id |-> action_id,
                  depends_on_action_id |-> dependency.depends_on_action_id,
                  dependency_type |-> dependency.dependency_type])])

----------------------------------------------------------------------------
(* POST /{action_id}/start  start_action *)

Mutant_StartableStatus(status) == status \in {"open", "pending"}

(* action.status != ActionStatus.OPEN raises *)
StartableStatus(status) == status = "open"

start_action(complaint_id, action_id, changed_by) ==
    IF ~FindAction(action_id, complaint_id)
    THEN Reject("NotFound")
    ELSE IF ~StartableStatus(actions[action_id].status)
    THEN Reject("InvalidTransition")
    ELSE IF ~validate_action_dependencies(action_id, complaint_id)
    THEN Reject("DependencyUnsatisfied")
    ELSE LET action == actions[action_id]
             old_status == action.status
             started == handle_status_transition([action EXCEPT !.status = "in_progress"],
                                                 "in_progress", now)
         IN Respond("ok", [Store EXCEPT
                !.actions[action_id] = started,
                !.history = create_action_history(@, action_id, "status",
                                Some(old_status), Some("in_progress"), changed_by,
                                Some("Action started")),
                !.now = Tick(action, started)])

----------------------------------------------------------------------------
(* Responsible persons *)

(* DELETE /responsible-persons/{person_id} *)
deactivate_responsible_person(person_id) ==
    IF person_id \notin DOMAIN persons
    THEN Reject("NotFound")
    ELSE Respond("ok", [Store EXCEPT !.persons[person_id].is_active = FALSE])

(* PUT /responsible-persons/{person_id} with only is_active set *)
update_responsible_person_admin(person_id, is_active) ==
    IF person_id \notin DOMAIN persons
    THEN Reject("NotFound")
    ELSE Respond("ok", [Store EXCEPT !.persons[person_id].is_active = is_active])

----------------------------------------------------------------------------
(* Complaints (app/api/complaints.py) *)

(* rows of the companies and parts tables; no modelled request changes them *)
CompanyIds == {1, 2}

PartIds == {1, 2}

(* ComplaintStatus *)
ComplaintStatus == {"open", "in_planning", "in_progress", "resolved"}

(* status strings a client sends *)
RawStatuses ==
    {"open", "in_planning", "in_progress", "resolved", "closed", " Closed ", "returned", ""}

(* s.strip().lower() on the strings of RawStatuses *)
StripLower(s) == IF s = " Closed " THEN "closed" ELSE s

(* s.lower() on the strings of RawStatuses *)
Lower(s) == IF s = " Closed " THEN " closed " ELSE s

(* datetime.utcnow().date(), in days *)
today == now

NewComplaint(complaint) ==
    [company_id |-> complaint.company_id, part_id |-> complaint.part_id,
     date_received |-> complaint.date_received, status |-> "open", is_deleted |-> FALSE]

(* POST /api/complaints *)
create_complaint(complaint) ==
    IF complaint.company_id \notin CompanyIds
    THEN Reject("NotFound")
    ELSE IF complaint.part_id \notin PartIds
    THEN Reject("NotFound")
    ELSE Respond("ok", [Store EXCEPT !.complaints = Append(@, NewComplaint(complaint))])

(* .filter(Complaint.id == complaint_id, Complaint.is_deleted == False).first() *)
FindComplaint(complaint_id) ==
    complaint_id \in DOMAIN complaints /\ ~complaints[complaint_id].is_deleted

(* ComplaintUpdate.normalize_status; "ValidationError" when the value is refused *)
normalize_status(v) ==
    LET s == StripLower(v)
    IN IF s = "closed" THEN "resolved"
       ELSE IF s \in {"open", "in_planning", "in_progress", "resolved"} THEN s
       ELSE "ValidationError"

(* ComplaintResponse.present_status_alias *)
present_status_alias(v) == IF v = "resolved" THEN "closed" ELSE v

(* ComplaintResponse of a row *)
ComplaintResponse(id, row) ==
    [id |-> id, company_id |-> row.company_id, part_id |-> row.part_id,
     date_received |-> row.date_received, status |-> present_status_alias(row.status)]

(* PUT /api/complaints/{complaint_id} with only status set *)
update_complaint(complaint_id, status) ==
    IF normalize_status(status) = "ValidationError"
    THEN Reject("ValidationError")
    ELSE IF ~FindComplaint(complaint_id)
    THEN Reject("NotFound")
    ELSE Respond("ok", [Store EXCEPT
             !.complaints[complaint_id].status = normalize_status(status)])

(* DELETE /api/complaints/{complaint_id} *)
delete_complaint(complaint_id) ==
    IF ~FindComplaint(complaint_id)
    THEN Reject("NotFound")
    ELSE Respond("ok", [Store EXCEPT !.complaints[complaint_id].is_deleted = TRUE])

(* the ids of S in descending order: order_by(desc(Complaint.created_at)) on
   rows inserted one after the other *)
Descending(S) ==
    CHOOSE q \in [1..Cardinality(S) -> S] :
        \A i, j \in 1..Cardinality(S) : i < j => q[i] > q[j]

(* _normalize_status_value of get_complaints; None when the segment is dropped *)
normalize_status_value(s) ==
    LET s_lower == StripLower(s)
    IN IF s_lower = "" THEN None
       ELSE IF s_lower = "closed" THEN Some("resolved")
       ELSE IF s_lower \in {"open", "in_progress", "resolved"} THEN Some(s_lower)
       ELSE None

(* norm_list of get_complaints for the segments of the status parameter *)
norm_list(status) ==
    {normalize_status_value(status[k])[1] :
        k \in {n \in DOMAIN status : normalize_status_value(status[n]) # None}}

(* GET /api/complaints: status is the list of the segments of the parameter,
   <<>> when the parameter is absent *)
get_complaints(page, size, status) ==
    LET norm == norm_list(status)
        query == {c \in DOMAIN complaints :
                    /\ complaints[c].company_id \in CompanyIds
                    /\ complaints[c].part_id \in PartIds
                    /\ ~complaints[c].is_deleted
                    /\ norm # {} => complaints[c].status \in norm}
        ordered == Descending(query)
        total == Cardinality(query)
        page_ids == SubSeq(ordered, (page - 1) * size + 1,
                           IF page * size < total THEN page * size ELSE total)
    IN [result |-> "ok",
        items |-> [k \in DOMAIN page_ids |->
                      ComplaintResponse(page_ids[k], complaints[page_ids[k]])],
        pagination |-> [page |-> page, size |-> size, total |-> total,
                        total_pages |-> (total + size - 1) \div size]]

(* GET /api/complaints/{complaint_id} *)
get_complaint(complaint_id) ==
    IF ~FindComplaint(complaint_id)
    THEN [result |-> "NotFound"]
    ELSE [result |-> "ok",
          complaint |-> ComplaintResponse(complaint_id, complaints[complaint_id])]

(* GET /api/complaints/export/csv: the data rows; status is None or Some(s) *)
export_csv(status) ==
    LET norm_status == IF status = None \/ status = Some("") THEN None
                       ELSE IF Lower(status[1]) = "closed" THEN Some("resolved")
                       ELSE Some(Lower(status[1]))
        query == {c \in DOMAIN complaints :
                    /\ complaints[c].company_id \in CompanyIds
                    /\ complaints[c].part_id \in PartIds
                    /\ norm_status # None => complaints[c].status = norm_status[1]}
        ordered == Descending(query)
    IN [result |-> "ok",
        rows |-> [k \in DOMAIN ordered |->
                     [id |-> ordered[k], status |-> complaints[ordered[k]].status]]]

----------------------------------------------------------------------------
(* Read operations on follow-up actions *)

(* the row ids of S ordered by action_number *)
ByActionNumber(S) ==
    CHOOSE q \in [1..Cardinality(S) -> S] :
        /\ \A i, j \in 1..Cardinality(S) : i # j => q[i] # q[j]
        /\ \A i, j \in 1..Cardinality(S) :
              i < j => actions[q[i]].action_number <= actions[q[j]].action_number

(* GET /api/complaints/{complaint_id}/actions: status is None or Some(s) *)
get_actions(complaint_id, status) ==
    IF complaint_id \notin DOMAIN complaints
    THEN [result |-> "NotFound"]
    ELSE LET query == {i \in ActionsOf(complaint_id) :
                          status # None => actions[i].status = status[1]}
             ordered == ByActionNumber(query)
         IN [result |-> "ok",
             actions |-> [k \in DOMAIN ordered |-> actions[ordered[k]]]]

Mutant_Rate(count, total) ==
    IF total > 0 THEN [num |-> count, den |-> total] ELSE [num |-> 0, den |-> 1]

(* a rate count / total * 100 as the fraction num / den *)
Rate(count, total) ==
    IF total > 0 THEN [num |-> count * 100, den |-> total] ELSE [num |-> 0, den |-> 1]

(* GET /api/complaints/{complaint_id}/actions/metrics *)
get_action_metrics(complaint_id) ==
    IF complaint_id \notin DOMAIN complaints
    THEN [result |-> "NotFound"]
    ELSE LET all == ActionsOf(complaint_id)
             closed_actions == Cardinality({i \in all : actions[i].status = "closed"})
         IN [result |-> "ok",
             total_actions |-> Cardinality(all),
             open_actions |-> Cardinality({i \in all : actions[i].status # "closed"}),
             completion_rate |-> Rate(closed_actions, Cardinality(all))]


----------------------------------------------------------------------------
(* Analytics (app/api/analytics.py) *)

(* GET /api/analytics/rar-metrics *)
get_rar_metrics ==
    LET total_complaints == Len(complaints)
        count(status) == Cardinality({c \in DOMAIN complaints : complaints[c].status = status})
    IN [result |-> "ok",
        returnRate |-> Rate(count("returned"), total_complaints),
        authorizationRate |-> Rate(count("authorized"), total_complaints),
        rejectionRate |-> Rate(count("rejected"), total_complaints),
        totalComplaints |-> total_complaints]

(* Complaint.date_received >= end_date - timedelta(weeks=weeks) *)
InWindow(c, weeks) == complaints[c].date_received >= today - 7 * weeks

(* GET /api/analytics/status-counts *)
get_status_counts(weeks) ==
    LET count(status) == Cardinality({c \in DOMAIN complaints :
                            /\ complaints[c].status = status
                            /\ InWindow(c, weeks)
                            /\ ~complaints[c].is_deleted})
    IN [result |-> "ok", open |-> count("open"), in_progress |-> count("in_progress"),
        resolved |-> count("resolved")]

(* the widest window of the top lists *)
WidestWeeks == 52

(* the complaints aggregate(window_weeks) groups; window_weeks is None for
   all-time *)
Selected(window_weeks) ==
    {c \in DOMAIN complaints :
        /\ ~complaints[c].is_deleted
        /\ window_weeks # None => InWindow(c, window_weeks[1])}

(* aggregate(window_weeks) of get_top_companies and get_top_parts for the
   column key: the results the query can return, rows <<key, count>> by
   descending count, at most limit of them; rows of equal count come in any
   order.  company_id and part_id are NOT NULL columns, so the isnot(None)
   filter keeps every row *)
aggregate(key, window_weeks, limit) ==
    LET sel == Selected(window_weeks)
        groups == {complaints[c][key] : c \in sel}
        cnt(g) == Cardinality({c \in sel : complaints[c][key] = g})
        n == IF Cardinality(groups) < limit THEN Cardinality(groups) ELSE limit
    IN {[k \in 1..n |-> <<q[k], cnt(q[k])>>] :
          q \in {p \in [1..Cardinality(groups) -> groups] :
                    /\ \A i, j \in DOMAIN p : i # j => p[i] # p[j]
                    /\ \A i, j \in DOMAIN p : i < j => cnt(p[i]) >= cnt(p[j])}}

Mutant_Widen(key, limit, weeks) ==
    IF aggregate(key, Some(weeks), limit) # {<<>>} THEN aggregate(key, Some(weeks), limit)
    ELSE aggregate(key, Some(WidestWeeks), limit)

(* rows = aggregate(weeks); if not rows: aggregate(52); if not rows:
   aggregate(None) *)
Widen(key, limit, weeks) ==
    IF aggregate(key, Some(weeks), limit) # {<<>>} THEN aggregate(key, Some(weeks), limit)
    ELSE IF aggregate(key, Some(WidestWeeks), limit) # {<<>>}
    THEN aggregate(key, Some(WidestWeeks), limit)
    ELSE aggregate(key, None, limit)

(* names_map.get(cid, f"Company {cid}") *)
CompanyLabel(cid) ==
    IF cid \in CompanyIds THEN "name of company " \o ToString(cid)
    ELSE "Company " \o ToString(cid)

(* numbers_map.get(pid, f"Part {pid}") *)
PartLabel(pid) ==
    IF pid \in PartIds THEN "number of part " \o ToString(pid)
    ELSE "Part " \o ToString(pid)

(* GET /api/analytics/top/companies: the responses the request can get *)
get_top_companies(limit, weeks) ==
    {[k \in DOMAIN rows |-> [label |-> CompanyLabel(rows[k][1]), value |-> rows[k][2]]] :
        rows \in Widen("company_id", limit, weeks)}

(* GET /api/analytics/top/parts: the responses the request can get *)
get_top_parts(limit, weeks) ==
    {[k \in DOMAIN rows |-> [label |-> PartLabel(rows[k][1]), value |-> rows[k][2]]] :
        rows \in Widen("part_id", limit, weeks)}

----------------------------------------------------------------------------
(* Requests *)

(* FollowUpActionCreate bodies *)
CreateBodies ==
    {[responsible_person |-> p, priority |-> "medium", notes |-> None] : p \in PersonNames}

(* FollowUpActionUpdate bodies with no field or one field set *)
SingleUpdates ==
    {<<>>} \cup UNION {{f :> v : v \in UpdateValues[f]} : f \in Range(UpdateFields)}

(* FollowUpActionUpdate bodies with up to two fields set *)
UpdateBodies ==
    SingleUpdates \cup
    {u @@ w : u \in SingleUpdates \ {<<>>}, w \in SingleUpdates \ {<<>>}}

ActionIds == 1..(Len(actions) + 1)

PersonIds == 1..(Len(persons) + 1)

(* action_ids of a bulk request: up to MaxBulkIds ids *)
BulkIdLists == UNION {[1..n -> ActionIds] : n \in 1..MaxBulkIds}

(* the bulk requests served as steps: ids in increasing order, one field set *)
BulkRequests ==
    {[action_ids |-> ids, updates |-> u] :
        ids \in {l \in BulkIdLists : \A i \in 1..(Len(l) - 1) : l[i] < l[i + 1]},
        u \in SingleUpdates \ {<<>>}}

(* date_received of a new complaint, in days before today *)
DateOffsets == {0, 140, 420}

(* ComplaintCreate bodies *)
ComplaintBodies ==
    {[company_id |-> co, part_id |-> pa, date_received |-> today - d] :
        co \in CompanyIds \cup {3}, pa \in PartIds, d \in DateOffsets}

ComplaintRowIds == 1..(Len(complaints) + 1)

----------------------------------------------------------------------------
(* Specification *)

Init ==
    /\ complaints = <<NewComplaint([company_id |-> 1, part_id |-> 1, date_received |-> 1]),
                      NewComplaint([company_id |-> 1, part_id |-> 1, date_received |-> 1])>>
    /\ persons = <<[name |-> "AL", is_active |-> TRUE], [name |-> "JF", is_active |-> TRUE]>>
    /\ actions = <<>>
    /\ history = <<>>
    /\ dependencies = <<>>
    /\ now = 1
    /\ inflight = [w \in Workers |-> Idle]

(* db.commit(): the session's store becomes the stored state *)
commit(store) ==
    /\ complaints' = store.complaints
    /\ persons' = store.persons
    /\ actions' = store.actions
    /\ history' = store.history
    /\ dependencies' = store.dependencies
    /\ now' = store.now

(* the response r is sent and its store becomes the state *)
Serve(r) ==
    /\ commit(r.store)
    /\ UNCHANGED inflight

(* Spec: the action lifecycle, the audit trail and the responsible persons *)

CreateAction ==
    \E c \in ComplaintIds, a \in CreateBodies, by \in Actors :
        /\ Len(history) < MaxHistory
        /\ Serve(create_action(a, c, by))

UpdateAction ==
    \E c \in ComplaintIds, id \in ActionIds, u \in SingleUpdates, by \in Actors :
        /\ Len(history) < MaxHistory
        /\ Serve(update_action(u, c, id, by))

DeleteAction ==
    \E c \in ComplaintIds, id \in ActionIds, by \in Actors :
        /\ Len(history) < MaxHistory
        /\ Serve(delete_action(c, id, by))

ReorderActions ==
    \E c \in ComplaintIds, id \in ActionIds, by \in Actors :
        \E pos \in 1..(Cardinality(ActionsOf(c)) + 1) :
            /\ Len(history) < MaxHistory
            /\ Serve(reorder_actions(c, id, pos, by))

BulkUpdateActions ==
    \E c \in ComplaintIds, b \in BulkRequests, by \in Actors :
        /\ Len(history) + Len(b.action_ids) <= MaxHistory
        /\ Serve(bulk_update_actions(b, c, by))

StartAction ==
    \E c \in ComplaintIds, id \in ActionIds, by \in Actors :
        /\ Len(history) < MaxHistory
        /\ Serve(start_action(c, id, by))

CreateDependency ==
    \E c \in ComplaintIds, id \in ActionIds, dep \in ActionIds :
        /\ Len(dependencies) < MaxDeps
        /\ Serve(create_dependency([depends_on_action_id |-> dep,
                                    dependency_type |-> "sequential"], c, id))

DeactivateResponsiblePerson ==
    \E p \in PersonIds : Serve(deactivate_responsible_person(p))

UpdateResponsiblePerson ==
    \E p \in PersonIds, b \in BOOLEAN : Serve(update_responsible_person_admin(p, b))

Next ==
    \/ CreateAction
    \/ UpdateAction
    \/ DeleteAction
    \/ ReorderActions
    \/ BulkUpdateActions
    \/ StartAction
    \/ CreateDependency
    \/ DeactivateResponsiblePerson
    \/ UpdateResponsiblePerson

Spec == Init /\ [][Next]_vars

(* SpecCap: one complaint filled up to the action limit, with CapExtra other
   requests in between *)

CapRoom == Len(history) < MaxActionsPerComplaint + CapExtra

CapOther == Len(history) - Len(actions) < CapExtra

CapCreateAction ==
    /\ CapRoom
    /\ Serve(create_action([responsible_person |-> "AL", priority |-> "medium",
                            notes |-> None], 1, "System"))

CapDeleteAction ==
    \E id \in ActionIds :
        /\ CapRoom /\ CapOther
        /\ Serve(delete_action(1, id, "System"))

CapReorderActions ==
    \E id \in ActionIds, pos \in 1..(Cardinality(ActionsOf(1)) + 1) :
        /\ CapRoom /\ CapOther
        /\ Serve(reorder_actions(1, id, pos, "System"))

CapUpdateAction ==
    \E id \in ActionIds, u \in {"status" :> "closed", "completion_percentage" :> 50} :
        /\ CapRoom /\ CapOther
        /\ Serve(update_action(u, 1, id, "System"))

CapBulkUpdateActions ==
    \E id \in ActionIds :
        /\ CapRoom /\ CapOther
        /\ Serve(bulk_update_actions([action_ids |-> <<id>>,
                                      updates |-> ("priority" :> "high")], 1, "System"))

NextCap ==
    \/ CapCreateAction
    \/ CapDeleteAction
    \/ CapReorderActions
    \/ CapUpdateAction
    \/ CapBulkUpdateActions

SpecCap == Init /\ [][NextCap]_vars

(* SpecComplaints: the complaints table from its empty state, with the
   follow-up actions of the complaints *)

InitComplaints ==
    /\ complaints = <<>>
    /\ persons = <<[name |-> "AL", is_active |-> TRUE], [name |-> "JF", is_active |-> TRUE]>>
    /\ actions = <<>>
    /\ history = <<>>
    /\ dependencies = <<>>
    /\ now = 1
    /\ inflight = [w \in Workers |-> Idle]

CreateComplaint ==
    \E b \in ComplaintBodies :
        /\ Len(complaints) < MaxComplaints
        /\ Serve(create_complaint(b))

UpdateComplaint ==
    \E c \in ComplaintRowIds, s \in RawStatuses : Serve(update_complaint(c, s))

DeleteComplaint ==
    \E c \in ComplaintRowIds : Serve(delete_complaint(c))

ComplaintCreateAction ==
    \E c \in ComplaintRowIds, a \in CreateBodies, by \in Actors :
        /\ Len(actions) < MaxComplaintActions
        /\ Serve(create_action(a, c, by))

NextComplaints ==
    \/ CreateComplaint
    \/ UpdateComplaint
    \/ DeleteComplaint
    \/ ComplaintCreateAction

SpecComplaints == InitComplaints /\ [][NextComplaints]_vars

(* SpecBulk: bulk_update_actions one statement group at a time; every
   create_action_history call inside the loop commits the session *)

BulkSetup ==
    \E c \in {1, 2} :
        /\ \A w \in Workers : inflight[w].op # "bulk"
        /\ Len(actions) < MaxBulkIds
        /\ Serve(create_action([responsible_person |-> "AL", priority |-> "medium",
                                notes |-> None], c, "System"))

(* lines 610-612: the handler is entered, nothing processed yet *)
BulkBegin ==
    \E w \in {1}, c \in ComplaintIds, b \in BulkRequests :
        /\ inflight[w].op \in {"idle", "responded"}
        /\ Len(history) - Len(actions) < CapExtra
        /\ inflight' = [inflight EXCEPT ![w] =
              [op |-> "bulk", complaint_id |-> c, action_ids |-> b.action_ids,
               updates |-> b.updates, updated_count |-> 0, failed_updates |-> <<>>,
               commits |-> 0, begin |-> [actions |-> actions, history |-> history]]]
        /\ UNCHANGED <<complaints, persons, actions, history, dependencies, now>>

(* lines 614-647: one iteration of the loop; each history row written by
   create_action_history (line 44) commits the session, the setattr before it
   included *)
BulkStep ==
    \E w \in {1} :
        /\ inflight[w].op = "bulk"
        /\ inflight[w].action_ids # <<>>
        /\ LET s == inflight[w]
               acc == [result |-> "ok", store |-> Store, updated_count |-> s.updated_count,
                       failed_updates |-> s.failed_updates]
               next == BulkItem(acc, Head(s.action_ids), s.complaint_id, s.updates, "System")
               rows == Len(next.store.history) - Len(history)
           IN /\ commit(next.store)
              /\ inflight' = [inflight EXCEPT ![w] =
                    [s EXCEPT !.action_ids = Tail(@),
                              !.updated_count = next.updated_count,
                              !.failed_updates = next.failed_updates,
                              !.commits = @ + rows]]

(* lines 649-655: the commit after the loop and the response *)
BulkEnd ==
    \E w \in {1} :
        /\ inflight[w].op = "bulk"
        /\ inflight[w].action_ids = <<>>
        /\ inflight' = [inflight EXCEPT ![w] =
              [op |-> "responded", updated_count |-> inflight[w].updated_count,
               failed_updates |-> inflight[w].failed_updates,
               commits |-> inflight[w].commits
                           + (IF inflight[w].updated_count > 0 THEN 1 ELSE 0)]]
        /\ UNCHANGED <<complaints, persons, actions, history, dependencies, now>>

NextBulk ==
    \/ BulkSetup
    \/ BulkBegin
    \/ BulkStep
    \/ BulkEnd

SpecBulk == Init /\ [][NextBulk]_vars

(* SpecRace: create_action handled by two workers, one database statement
   group at a time; each worker has its own session and reads the committed
   rows *)

RaceBody == [responsible_person |-> "AL", priority |-> "medium", notes |-> None]

(* lines 88-102: the complaint lookup and the count against the limit *)
RaceCheckLimit ==
    \E w \in Workers, c \in {1} :
        /\ inflight[w].op = "idle"
        /\ c \in DOMAIN complaints
        /\ ~ActionLimitReached(c)
        /\ inflight' = [inflight EXCEPT ![w] =
              [op |-> "create", pc |-> "number", complaint_id |-> c, action |-> RaceBody]]
        /\ UNCHANGED <<complaints, persons, actions, history, dependencies, now>>

(* lines 104-119: the responsible person lookup and get_next_action_number *)
RaceReadNumber ==
    \E w \in Workers :
        /\ inflight[w].op = "create" /\ inflight[w].pc = "number"
        /\ inflight' = [inflight EXCEPT ![w] =
              IF ActivePerson(inflight[w].action.responsible_person)
              THEN [op |-> "create", pc |-> "insert",
                    complaint_id |-> inflight[w].complaint_id,
                    action |-> inflight[w].action,
                    action_number |-> get_next_action_number(inflight[w].complaint_id)]
              ELSE Idle]
        /\ UNCHANGED <<complaints, persons, actions, history, dependencies, now>>

(* lines 121-130: db.add, db.commit, db.refresh *)
RaceInsert ==
    \E w \in Workers :
        /\ inflight[w].op = "create" /\ inflight[w].pc = "insert"
        /\ commit([Store EXCEPT !.actions =
               Append(@, NewAction(inflight[w].complaint_id, inflight[w].action_number,
                                   inflight[w].action))])
        /\ inflight' = [inflight EXCEPT ![w] =
              [op |-> "create", pc |-> "history", id |-> Len(actions) + 1,
               action_number |-> inflight[w].action_number]]

(* lines 132-138: the audit row and the response *)
RaceHistory ==
    \E w \in Workers :
        /\ inflight[w].op = "create" /\ inflight[w].pc = "history"
        /\ commit([Store EXCEPT !.history =
               create_action_history(@, inflight[w].id, "created", None,
                   Some("Action #" \o ToString(inflight[w].action_number) \o " created"),
                   "System", None)])
        /\ inflight' = [inflight EXCEPT ![w] = Idle]

NextRace ==
    \/ RaceCheckLimit
    \/ RaceReadNumber
    \/ RaceInsert
    \/ RaceHistory

SpecRace == Init /\ [][NextRace]_vars

(* SpecReorder: a complaint filled up to the action limit next to an action of
   another complaint, with MaxReorders reorders *)

PositionInputs == 0..(MaxNewPosition + 1)

Reorders == Cardinality({h \in DOMAIN history : history[h].field_changed = "action_number"})

ReorderCreateAction ==
    \E c \in {1, 2} :
        /\ c = 2 => ActionsOf(2) = {}
        /\ Serve(create_action([responsible_person |-> "AL", priority |-> "medium",
                                notes |-> None], c, "System"))

ReorderMoveAction ==
    \E c \in {1, 2}, id \in ActionIds, pos \in PositionInputs :
        /\ Reorders < MaxReorders
        /\ Serve(reorder_actions(c, id, pos, "System"))

NextReorder ==
    \/ ReorderCreateAction
    \/ ReorderMoveAction

SpecReorder == Init /\ [][NextReorder]_vars

(* SpecTop: complaints received at various dates and soft-deleted *)

NextTop ==
    \/ CreateComplaint
    \/ DeleteComplaint

SpecTop == InitComplaints /\ [][NextTop]_vars

(* SpecSeeded: the complaint requests on a complaints table seeded with rows
   of any status, as tests/test_analytics.py seeds it *)

SeededStatuses == {"open", "returned", "authorized", "rejected"}

SeededTables ==
    UNION {[1..n -> {[NewComplaint([company_id |-> 1, part_id |-> 1, date_received |-> 1])
                        EXCEPT !.status = st] : st \in SeededStatuses}] :
              n \in 0..MaxComplaints}

InitSeeded ==
    /\ complaints \in SeededTables
    /\ persons = <<[name |-> "AL", is_active |-> TRUE], [name |-> "JF", is_active |-> TRUE]>>
    /\ actions = <<>>
    /\ history = <<>>
    /\ dependencies = <<>>
    /\ now = 1
    /\ inflight = [w \in Workers |-> Idle]

NextSeeded ==
    \/ CreateComplaint
    \/ UpdateComplaint
    \/ DeleteComplaint

SpecSeeded == InitSeeded /\ [][NextSeeded]_vars

----------------------------------------------------------------------------
(* Properties *)

NumbersOf(acts, c) == {acts[i].action_number : i \in {j \in DOMAIN acts : acts[j].complaint_id = c}}

CountOf(acts, c) == Cardinality({j \in DOMAIN acts : acts[j].complaint_id = c})

(* C1: in every reachable state the action_number values of the N actions of
   a complaint are exactly 1..N, without gap or duplicate *)
C1_DenseNumbering ==
    \A c \in ComplaintIds : NumbersOf(actions, c) = 1..CountOf(actions, c)

(* a complaint with several actions after a reorder that moved a row *)
C1_Witness ==
    /\ CountOf(actions, 1) >= 3
    /\ \E h \in Range(history) : h.field_changed = "action_number"
    /\ \E i \in DOMAIN actions : actions[i].action_number # i

(* C2: create_action succeeds below 10 actions (complaint exists, person
   active) and fails with LimitExceeded at 10, adding no action and no
   history row; no complaint ever has more than 10 actions *)
C2_ActionCap ==
    /\ \A c \in ComplaintIds : CountOf(actions, c) <= 10
    /\ \A c \in ComplaintIds, a \in CreateBodies :
          LET r == create_action(a, c, "System")
          IN /\ (c \in DOMAIN complaints /\ CountOf(actions, c) < 10
                    /\ ActivePerson(a.responsible_person))
                  => /\ r.result = "ok"
                     /\ CountOf(r.store.actions, c) = CountOf(actions, c) + 1
             /\ (c \in DOMAIN complaints /\ CountOf(actions, c) >= 10)
                  => /\ r.result = "LimitExceeded"
                     /\ r.store.actions = actions
                     /\ r.store.history = history

(* the eleventh create_action of a complaint is refused *)
C2_Witness ==
    /\ CountOf(actions, 1) = 10
    /\ create_action([responsible_person |-> "AL", priority |-> "medium", notes |-> None],
                     1, "System").result = "LimitExceeded"

(* the requests examined in every reachable state *)
Requests(P(_, _)) == \A c \in ComplaintIds, id \in ActionIds : P(c, id)

(* some dependency edge of action id points to an action that is not closed *)
UnmetDependency(id) ==
    \E d \in DOMAIN dependencies :
        /\ dependencies[d].action_id = id
        /\ actions[dependencies[d].depends_on_action_id].status # "closed"

C3_Case(c, id) ==
    (FindAction(id, c) /\ actions[id].status = "open") =>
        LET r == start_action(c, id, "System")
        IN /\ UnmetDependency(id) =>
                 /\ r.result = "DependencyUnsatisfied"
                 /\ r.store = Store
           /\ ~UnmetDependency(id) =>
                 /\ r.result = "ok"
                 /\ r.store.actions[id].status = "in_progress"

(* C3: start_action on an open action fails with DependencyUnsatisfied and
   changes nothing when some dependency target is not closed; it succeeds
   and sets in_progress when every target is closed, in particular when the
   action has no dependency *)
C3_StartGating == Requests(C3_Case)

(* an open action whose dependency target has been closed is started *)
C3_Witness ==
    \E a, b \in DOMAIN actions, d \in DOMAIN dependencies :
        /\ a # b
        /\ dependencies[d].action_id = b
        /\ dependencies[d].depends_on_action_id = a
        /\ actions[a].status = "closed"
        /\ actions[b].status = "open"
        /\ LET r == start_action(actions[b].complaint_id, b, "System")
           IN /\ r.result = "ok"
              /\ r.store.actions[b].status = "in_progress"
              /\ r.store.actions[b].started_at # None

(* C4: the stored dependency edges never hold both A->B and B->A for two
   actions A and B *)
C4_NoDirectCycle ==
    \A d1, d2 \in DOMAIN dependencies :
        dependencies[d1].action_id # dependencies[d1].depends_on_action_id =>
            ~(/\ dependencies[d2].action_id = dependencies[d1].depends_on_action_id
              /\ dependencies[d2].depends_on_action_id = dependencies[d1].action_id)

(* an edge A->B is stored and the request for B->A is refused *)
C4_Witness ==
    \E d \in DOMAIN dependencies :
        LET a == dependencies[d].action_id
            b == dependencies[d].depends_on_action_id
        IN /\ a # b
           /\ create_dependency([depends_on_action_id |-> a, dependency_type |-> "sequential"],
                                actions[b].complaint_id, b).result = "CircularDependency"

(* the text the audit trail is to hold for a value of a field *)
C5_Text(f, v) ==
    CASE f = "completion_percentage" -> Some(ToString(v))
      [] f = "notes" -> v
      [] OTHER -> Some(v)

(* the rows a response appended to the history *)
Appended(r) == SubSeq(r.store.history, Len(history) + 1, Len(r.store.history))

(* one row per field that differs, none for the others, nothing at all when
   no field differs *)
C5_RowsCase(c, id) ==
    FindAction(id, c) =>
        \A u \in UpdateBodies :
            LET r == update_action(u, c, id, "System")
                diff == {f \in DOMAIN u : actions[id][f] # u[f]}
                added == Appended(r)
            IN r.result = "ok" =>
                /\ SubSeq(r.store.history, 1, Len(history)) = history
                /\ \A f \in diff :
                      Cardinality({k \in DOMAIN added :
                          added[k].action_id = id /\ added[k].field_changed = f}) = 1
                /\ \A k \in DOMAIN added :
                      added[k].action_id = id /\ added[k].field_changed \in diff
                /\ diff = {} => r.store = Store

(* the row of a field holds the old and the new value of the field *)
C5_ValuesCase(c, id) ==
    FindAction(id, c) =>
        \A u \in UpdateBodies :
            LET r == update_action(u, c, id, "System")
                added == Appended(r)
            IN r.result = "ok" =>
                \A k \in DOMAIN added :
                    LET f == added[k].field_changed
                    IN /\ added[k].old_value = C5_Text(f, actions[id][f])
                       /\ added[k].new_value = C5_Text(f, u[f])

C5_RowPerChangedField == Requests(C5_RowsCase)

(* C5: every successful update_action appends exactly one history row per
   field whose requested value differs from the stored one, holding the old
   and the new value of the field, no row for the other fields, and nothing
   when no field differs *)
C5_AuditCompleteness == Requests(C5_RowsCase) /\ Requests(C5_ValuesCase)

(* C6: whenever a request changes the status of an action to closed, the
   action has completed_at set and completion_percentage 100 afterwards *)
C6_ClosedSideEffects ==
    [][\A i \in DOMAIN actions :
          (actions[i].status # "closed" /\ actions'[i].status = "closed") =>
              /\ actions'[i].completed_at # None
              /\ actions'[i].completion_percentage = 100]_vars

(* C7: whenever a request changes the status of an action to in_progress,
   started_at is set afterwards; once set, started_at never changes *)
C7_StartedAt ==
    [][\A i \in DOMAIN actions :
          /\ (actions[i].status # "in_progress" /\ actions'[i].status = "in_progress")
                => actions'[i].started_at # None
          /\ actions[i].started_at # None
                => actions'[i].started_at = actions[i].started_at]_vars

C8_Case(c, id) ==
    (FindAction(id, c) /\ actions[id].status # "open") =>
        LET r == start_action(c, id, "System")
        IN r.result = "InvalidTransition" /\ r.store = Store

(* C8: start_action on an action that is not open fails with
   InvalidTransition and leaves the action, its timestamps and its history
   unchanged *)
C8_StartOnlyFromOpen == Requests(C8_Case)

(* a pending action is refused *)
C8_Witness ==
    \E i \in DOMAIN actions :
        /\ actions[i].status = "pending"
        /\ start_action(actions[i].complaint_id, i, "System").result = "InvalidTransition"

(* C9: no request sets the responsible_person of an action to a name that is
   not an active responsible person at that moment; deactivating a person
   changes no action *)
C9_AssignedPersonActive ==
    [][/\ \A i \in DOMAIN actions' :
             (i \notin DOMAIN actions
                 \/ actions'[i].responsible_person # actions[i].responsible_person)
                => ActivePerson(actions'[i].responsible_person)
       /\ persons' # persons => actions' = actions]_vars

C10_Case(c, id) ==
    FindAction(id, c) =>
        \A u \in UpdateBodies :
            (/\ "responsible_person" \in DOMAIN u
             /\ u.responsible_person # actions[id].responsible_person
             /\ ~ActivePerson(u.responsible_person))
            => LET r == update_action(u, c, id, "System")
               IN r.result = "InvalidReference" /\ r.store = Store

(* C10: update_action that changes responsible_person to a missing or
   inactive name is rejected with InvalidReference and leaves the store as it
   was: no other field of the request is persisted, no history row written *)
C10_RejectedUpdateLeavesAction == Requests(C10_Case)

(* a request that closes an open action and assigns a deactivated person *)
C10_Witness ==
    \E i \in DOMAIN actions, p \in DOMAIN persons :
        /\ ~persons[p].is_active
        /\ actions[i].responsible_person # persons[p].name
        /\ actions[i].status = "open"
        /\ update_action(("responsible_person" :> persons[p].name) @@ ("status" :> "closed"),
                         actions[i].complaint_id, i, "System").result = "InvalidReference"

C11_Case(c) ==
    (c \notin DOMAIN complaints \/ complaints[c].is_deleted) =>
        \A a \in CreateBodies :
            LET r == create_action(a, c, "System")
            IN /\ r.result = "NotFound"
               /\ r.store.actions = actions
               /\ r.store.history = history

(* C11: create_action for a complaint that does not exist or that has been
   soft-deleted fails with NotFound and creates no action and no history row *)
C11_CreateOnMissingComplaint == \A c \in ComplaintRowIds : C11_Case(c)

C12_Case(c, id) ==
    FindAction(id, c) =>
        LET r == delete_action(c, id, "System")
        IN /\ r.result = "ok"
           /\ r.store.actions[id].status = "cancelled"
           /\ r.store.history =
                 Append(history, [action_id |-> id, field_changed |-> "status",
                                  old_value |-> Some(actions[id].status),
                                  new_value |-> Some("cancelled"),
                                  changed_by |-> "System",
                                  change_reason |-> Some("Action deleted")])
           /\ DOMAIN r.store.actions = DOMAIN actions
           /\ \A k \in ComplaintIds : CountOf(r.store.actions, k) = CountOf(actions, k)
           /\ \A i \in DOMAIN actions :
                 \A f \in DOMAIN actions[i] :
                     (i # id \/ f # "status") => r.store.actions[i][f] = actions[i][f]
           /\ r.store.dependencies = dependencies

(* C12: delete_action sets the status to cancelled and appends exactly one
   history row (status, previous status -> cancelled, reason 'Action
   deleted'); no row is removed: the action count, every action_number, the
   other fields of the action and all dependency edges are unchanged *)
C12_DeleteActionFrame == Requests(C12_Case)

(* a deleted action that is still stored with its number and its dependency
   edge *)
C12_Witness ==
    \E i \in DOMAIN actions, d \in DOMAIN dependencies, h \in DOMAIN history :
        /\ actions[i].status = "cancelled"
        /\ history[h].action_id = i
        /\ history[h].change_reason = Some("Action deleted")
        /\ dependencies[d].action_id = i \/ dependencies[d].depends_on_action_id = i
        /\ actions[i].action_number \in 1..CountOf(actions, actions[i].complaint_id)

(* the partial updates of the bulk requests examined in every state *)
C13_Updates ==
    {<<>>, "status" :> "closed", ("priority" :> "high") @@ ("completion_percentage" :> 50)}

C13_Case(c, ids, u) ==
    LET r == bulk_update_actions([action_ids |-> ids, updates |-> u], c, "System")
        found == {k \in DOMAIN ids : FindAction(ids[k], c)}
        missing == SelectSeq(ids, LAMBDA id : ~FindAction(id, c))
    IN /\ r.updated_count + Len(r.failed_updates) = Len(ids)
       /\ r.updated_count = Cardinality(found)
       /\ Len(r.failed_updates) = Len(missing)
       /\ \A k \in DOMAIN missing : r.failed_updates[k].action_id = missing[k]
       /\ \A k \in found : \A f \in DOMAIN u : r.store.actions[ids[k]][f] = u[f]

(* C13: bulk_update handles every id of action_ids on its own: an id that is
   not an action of the complaint is recorded in failed_updates and the later
   ids are still updated, every id that is an action of the complaint is
   counted in updated_count, and updated_count + |failed_updates| =
   |action_ids| *)
C13_BulkCounts ==
    \A c \in ComplaintIds, ids \in BulkIdLists, u \in C13_Updates : C13_Case(c, ids, u)

(* after a bulk update, a request whose first id belongs to another complaint
   and whose second id is an action of the complaint updates the second *)
C13_Witness ==
    \E i, j \in DOMAIN actions :
        /\ actions[i].complaint_id # actions[j].complaint_id
        /\ actions[j].status # "closed"
        /\ \E h \in DOMAIN history : history[h].change_reason = Some("Bulk update")
        /\ LET r == bulk_update_actions([action_ids |-> <<i, j>>,
                                         updates |-> ("status" :> "closed")],
                                        actions[j].complaint_id, "System")
           IN /\ r.updated_count = 1
              /\ r.failed_updates = <<[action_id |-> i, error |-> "Action not found"]>>
              /\ r.store.actions[j].status = "closed"

(* the partial updates with two fields examined for C14 *)
C14_TwoFields ==
    {("status" :> "closed") @@ ("completion_percentage" :> 50),
     ("responsible_person" :> "JF") @@ ("priority" :> "high"),
     ("status" :> "open") @@ ("notes" :> Some("checked"))}

C14_Case(c, ids, u) ==
    LET r == bulk_update_actions([action_ids |-> ids, updates |-> u], c, "System")
    IN \A k \in DOMAIN ids :
          FindAction(ids[k], c) =>
             LET id == ids[k]
                 diff == {f \in DOMAIN u : actions[id][f] # u[f]}
                 rows == SelectSeq(Appended(r), LAMBDA h : h.action_id = id)
                 ru == update_action(u, c, id, "System")
             IN /\ \A f \in DOMAIN actions[id] :
                      r.store.actions[id][f] = IF f \in diff THEN u[f] ELSE actions[id][f]
                /\ \A f \in diff :
                      Cardinality({n \in DOMAIN rows : rows[n].field_changed = f}) = 1
                /\ \A n \in DOMAIN rows :
                      /\ rows[n].field_changed \in diff
                      /\ rows[n].change_reason = Some("Bulk update")
                /\ ru.result = "ok" =>
                      [n \in DOMAIN rows |-> [rows[n] EXCEPT !.change_reason = None]]
                          = Appended(ru)

(* C14: for each action bulk_update locates, exactly the fields whose
   requested value differs from the stored one are changed, each with exactly
   one history row (reason 'Bulk update') holding the same old and new value
   as the row update_action writes for the same action and fields; fields
   that do not differ are untouched and have no row *)
C14_BulkDiffAsUpdate ==
    /\ \A c \in ComplaintIds, id \in ActionIds, u \in SingleUpdates \cup C14_TwoFields :
          C14_Case(c, <<id>>, u)
    /\ \A c \in ComplaintIds, i \in ActionIds, j \in ActionIds, u \in C13_Updates :
          i # j => C14_Case(c, <<i, j>>, u)

(* a bulk update raised the priority of an action and left a row for it *)
C14_Witness ==
    \E h \in DOMAIN history :
        /\ history[h].change_reason = Some("Bulk update")
        /\ history[h].field_changed = "priority"
        /\ history[h].old_value = Some("medium")
        /\ actions[history[h].action_id].priority = "high"
        /\ actions[history[h].action_id].status = "open"

(* C15: the action history is append-only: every row of a state is, with the
   same action, field, old value, new value, actor and reason, at the same
   place in every later state; requests only add rows *)
C15_HistoryAppendOnly ==
    [][/\ Len(history') >= Len(history)
       /\ SubSeq(history', 1, Len(history)) = history]_vars

(* two status changes of one action, both kept *)
C15_Witness ==
    \E h1, h2 \in DOMAIN history :
        /\ h1 < h2
        /\ history[h1].action_id = history[h2].action_id
        /\ history[h1].field_changed = "status"
        /\ history[h2].field_changed = "status"
        /\ history[h1].new_value = history[h2].old_value

(* C16: every change of a stored field of an action made by a request has a
   history row of that action and field written by the request; this
   includes completion_percentage, started_at and completed_at changed by a
   status transition and the action_number of every action a reorder shifts *)
C16_EveryChangeAudited ==
    [][\A i \in DOMAIN actions : \A f \in DOMAIN actions[i] :
          actions'[i][f] # actions[i][f] =>
              \E k \in (Len(history) + 1)..Len(history') :
                  /\ history'[k].action_id = i
                  /\ history'[k].field_changed = f]_vars

(* the status parameters of the listings examined in every state *)
StatusParams ==
    {<<>>} \cup {<<s>> : s \in RawStatuses} \cup {<<"open", "closed">>}

ItemIds(items) == {items[k].id : k \in DOMAIN items}

(* a soft-deleted complaint is in no listing, detail or count *)
C17_Excluded(c) ==
    /\ \A st \in StatusParams : c \notin ItemIds(get_complaints(1, 10, st).items)
    /\ get_complaint(c).result = "NotFound"
    /\ \A s \in RawStatuses : update_complaint(c, s).result # "ok"
    /\ get_actions(c, None).result = "NotFound"
    /\ get_action_metrics(c).result = "NotFound"
    /\ \A st \in {None} \cup {Some(s) : s \in RawStatuses} :
          c \notin ItemIds(export_csv(st).rows)
    /\ get_rar_metrics.totalComplaints
          = Cardinality({k \in DOMAIN complaints : ~complaints[k].is_deleted})

(* C17: once is_deleted is true it stays true and the row stays stored, and
   the complaint is excluded from the complaint list, detail and update, from
   the action list and metrics of the complaint, from the exports and from
   the analytics counts *)
C17_SoftDeletedHidden ==
    /\ [](\A c \in DOMAIN complaints : complaints[c].is_deleted => C17_Excluded(c))
    /\ [][\A c \in DOMAIN complaints :
             complaints[c].is_deleted =>
                 c \in DOMAIN complaints' /\ complaints'[c].is_deleted]_vars

(* the presented statuses update_complaint can give a complaint *)
GivenStatuses ==
    {present_status_alias(normalize_status(v)) :
        v \in {w \in RawStatuses : normalize_status(w) # "ValidationError"}}

C18_Case(s) ==
    LET r == get_complaints(1, 10, <<s>>)
    IN /\ ItemIds(r.items) =
             {c \in DOMAIN complaints :
                 ~complaints[c].is_deleted /\ present_status_alias(complaints[c].status) = s}
       /\ \A k \in DOMAIN r.items : r.items[k].status = s

(* C18: for every status s update_complaint can give ('closed' presented for
   stored 'resolved'), the complaint list with status filter s returns
   exactly the non-deleted complaints whose presented status is s; a
   complaint updated to 'closed' is listed under closed, with status
   'closed', and not under open *)
C18_StatusFilter == \A s \in GivenStatuses : C18_Case(s)

(* the non-deleted complaints received in the last w weeks; all of them when
   w is None *)
C19_Received(w) ==
    {c \in DOMAIN complaints :
        /\ ~complaints[c].is_deleted
        /\ w # None => complaints[c].date_received >= now - 7 * w[1]}

(* the first non-empty of the three windows, the last one when all are empty *)
C19_FirstWindow(weeks) ==
    IF C19_Received(Some(weeks)) # {} THEN Some(weeks)
    ELSE IF C19_Received(Some(52)) # {} THEN Some(52)
    ELSE None

(* resp lists, by descending count and up to limit, the groups of the
   complaints base under the column key *)
C19_TopOf(resp, base, key, Label(_), limit) ==
    LET groups == {complaints[c][key] : c \in base}
        cnt(g) == Cardinality({c \in base : complaints[c][key] = g})
        listed == {g \in groups : \E k \in DOMAIN resp : resp[k].label = Label(g)}
    IN /\ Len(resp) = IF Cardinality(groups) < limit THEN Cardinality(groups) ELSE limit
       /\ Cardinality(listed) = Len(resp)
       /\ \A k \in DOMAIN resp :
             \E g \in groups : resp[k].label = Label(g) /\ resp[k].value = cnt(g)
       /\ \A i, j \in DOMAIN resp : i < j => resp[i].value >= resp[j].value
       /\ \A g \in groups \ listed : \A k \in DOMAIN resp : cnt(g) <= resp[k].value

C19_Case(responses, key, Label(_), limit, weeks) ==
    \A resp \in responses :
        /\ C19_TopOf(resp, C19_Received(C19_FirstWindow(weeks)), key, Label, limit)
        /\ resp = <<>> <=> \A c \in DOMAIN complaints : complaints[c].is_deleted
        /\ (\E c \in DOMAIN complaints :
                ~complaints[c].is_deleted /\ complaints[c].date_received < now - 7 * weeks)
              => resp # <<>>

(* C19: top/companies and top/parts compute their result from the first
   non-empty of the requested window, the 52-week window and all-time, in
   this order; the result is empty only when there is no non-deleted
   complaint, and a complaint older than the requested window makes it
   non-empty *)
C19_TopWidening ==
    \A limit \in {1, 6}, weeks \in {1, 12, 30, 52} :
        /\ get_top_companies(limit, weeks) # {}
        /\ get_top_parts(limit, weeks) # {}
        /\ C19_Case(get_top_companies(limit, weeks), "company_id", CompanyLabel, limit, weeks)
        /\ C19_Case(get_top_parts(limit, weeks), "part_id", PartLabel, limit, weeks)

(* the only complaint left is older than 52 weeks, a deleted one is recent:
   the 12-week top list of companies holds the old one *)
C19_Witness ==
    \E c, d \in DOMAIN complaints :
        /\ complaints[d].is_deleted
        /\ complaints[d].date_received >= now - 7 * 12
        /\ ~complaints[c].is_deleted
        /\ complaints[c].date_received < now - 7 * 52
        /\ get_top_companies(6, 12) =
              {<<[label |-> CompanyLabel(complaints[c].company_id), value |-> 1]>>}

C20_Count(status) ==
    Cardinality({c \in DOMAIN complaints : complaints[c].status = status})

(* the fraction rate equals count / total * 100 *)
C20_RateIs(rate, count, total) ==
    /\ rate.den > 0
    /\ rate.num * total = count * 100 * rate.den

(* C20: in every store state the three rates of rar-metrics equal
   count(complaints with status X) / total complaints * 100 when there is a
   complaint, and all three are 0 when there is none *)
C20_RarRates ==
    LET r == get_rar_metrics
        total == Len(complaints)
    IN /\ r.result = "ok"
       /\ total > 0 =>
             /\ C20_RateIs(r.returnRate, C20_Count("returned"), total)
             /\ C20_RateIs(r.authorizationRate, C20_Count("authorized"), total)
             /\ C20_RateIs(r.rejectionRate, C20_Count("rejected"), total)
       /\ total = 0 =>
             /\ r.returnRate.num = 0
             /\ r.authorizationRate.num = 0
             /\ r.rejectionRate.num = 0

(* one of two complaints is returned, the other was closed: the return rate
   is 50 and the other rates are 0 *)
C20_Witness ==
    /\ Len(complaints) = 2
    /\ C20_Count("returned") = 1
    /\ C20_Count("resolved") = 1
    /\ get_rar_metrics.returnRate.num = 50 * get_rar_metrics.returnRate.den
    /\ get_rar_metrics.rejectionRate.num = 0

(* the number the claim gives action i after reorder(id, new) in complaint c *)
C21_Expected(i, c, id, new) ==
    LET old == actions[id].action_number
        n == actions[i].action_number
    IN IF i = id THEN new
       ELSE IF actions[i].complaint_id # c THEN n
       ELSE IF old < new /\ old < n /\ n <= new THEN n - 1
       ELSE IF new < old /\ new <= n /\ n < old THEN n + 1
       ELSE n

C21_Case(c, id, new) ==
    (FindAction(id, c) /\ new \in 1..CountOf(actions, c)) =>
        LET r == reorder_actions(c, id, new, "System")
        IN /\ r.result = "ok"
           /\ DOMAIN r.store.actions = DOMAIN actions
           /\ \A i \in DOMAIN actions :
                 r.store.actions[i].action_number = C21_Expected(i, c, id, new)
           /\ \A i, j \in ActionsOf(c) \ {id} :
                 actions[i].action_number < actions[j].action_number
                    => r.store.actions[i].action_number < r.store.actions[j].action_number

(* C21: reorder(action, new) with a valid new position decrements every
   action of the complaint with old < number <= new when old < new,
   increments every action with new <= number < old when new < old, gives the
   moved action new, and leaves every other action of the complaint, the
   actions of other complaints and the relative order of the non-moved
   actions unchanged *)
C21_ReorderShift ==
    \A c \in ComplaintIds, id \in ActionIds, new \in 1..MaxActionsPerComplaint :
        C21_Case(c, id, new)

(* position 1 of 10 was moved to 5: the old 2..5 are 1..4, 6..10 are as they
   were, and the action of the other complaint kept its number *)
C21_Witness ==
    /\ CountOf(actions, 1) = 10
    /\ CountOf(actions, 2) = 1
    /\ \E h \in DOMAIN history :
          /\ history[h].field_changed = "action_number"
          /\ history[h].old_value = Some("1")
          /\ history[h].new_value = Some("5")
          /\ actions[history[h].action_id].action_number = 5
    /\ \A n \in 1..10 : \E i \in ActionsOf(1) : actions[i].action_number = n
    /\ \A i \in ActionsOf(2) : actions[i].action_number = 1

C22_Rejected(c, id, new, error) ==
    LET r == reorder_actions(c, id, new, "System")
    IN /\ r.result = error
       /\ r.store.actions = actions
       /\ r.store.history = history

C22_NoOp(c, id) ==
    LET r == reorder_actions(c, id, actions[id].action_number, "System")
    IN /\ r.result = "ok"
       /\ r.store.actions = actions

(* C22 as stated: reorder with a new_position outside 1..(number of actions
   of the complaint) fails with InvalidPosition, changes no action_number and
   writes no history row; reorder to the action's current number changes no
   action_number *)
C22_OutsideIsInvalidPosition ==
    \A c \in ComplaintIds, id \in ActionIds :
        FindAction(id, c) =>
            /\ \A new \in PositionInputs \ (1..CountOf(actions, c)) :
                  C22_Rejected(c, id, new, "InvalidPosition")
            /\ C22_NoOp(c, id)

(* C22 amended: a new_position beyond the number of actions but within 1..10
   fails with InvalidPosition, one below 1 or above 10 fails with
   ValidationError; both change no action_number and write no history row;
   reorder to the action's current number changes no action_number *)
C22_OutsideRejected ==
    \A c \in ComplaintIds, id \in ActionIds :
        FindAction(id, c) =>
            /\ \A new \in PositionInputs \ (1..CountOf(actions, c)) :
                  C22_Rejected(c, id, new,
                      IF new \in 1..MaxNewPosition THEN "InvalidPosition" ELSE "ValidationError")
            /\ C22_NoOp(c, id)

(* an action of a complaint with fewer than 10 actions and one earlier
   reorder: position count + 1 is an InvalidPosition, 0 a ValidationError *)
C22_Witness ==
    \E id \in DOMAIN actions :
        LET c == actions[id].complaint_id
            n == CountOf(actions, c)
        IN /\ n >= 2 /\ n < MaxNewPosition
           /\ Reorders = 1
           /\ reorder_actions(c, id, n + 1, "System").result = "InvalidPosition"
           /\ reorder_actions(c, id, 0, "System").result = "ValidationError"
           /\ reorder_actions(c, id, actions[id].action_number, "System").result = "ok"

C23_Case(c, body) ==
    LET r == create_action(body, c, "System")
        new == r.store.actions[Len(actions) + 1]
        rows == Appended(r)
    IN r.result = "ok" =>
         /\ Len(r.store.actions) = Len(actions) + 1
         /\ SubSeq(r.store.actions, 1, Len(actions)) = actions
         /\ new.complaint_id = c
         /\ new.action_number =
               (IF NumbersOf(actions, c) = {} THEN 1 ELSE Max(NumbersOf(actions, c)) + 1)
         /\ new.status = "open"
         /\ SubSeq(r.store.history, 1, Len(history)) = history
         /\ Len(rows) = 1
         /\ rows[1].action_id = Len(actions) + 1
         /\ rows[1].field_changed = "created"
         /\ rows[1].old_value = None

(* C23: a successful create_action gives the new action the number
   max(existing numbers of the complaint) + 1, or 1 when the complaint has
   none, status open, and appends exactly one history row for the new action
   with field 'created' and old value null; no existing action or history row
   is changed *)
C23_CreateNumbersAndAudits ==
    \A c \in ComplaintIds, body \in CreateBodies : C23_Case(c, body)

(* a second action was created in a complaint and audited, and a further
   create would succeed *)
C23_Witness ==
    \E id \in DOMAIN actions, h \in DOMAIN history :
        /\ actions[id].action_number = 2
        /\ history[h].action_id = id
        /\ history[h].field_changed = "created"
        /\ history[h].new_value = Some("Action #2 created")
        /\ \E body \in CreateBodies :
              create_action(body, actions[id].complaint_id, "System").result = "ok"

(* C24: bulk_update commits exactly once, after the last action_id has been
   processed and only if updated_count > 0: while ids of the batch remain to
   be processed the stored actions and history are those of the start of the
   request and no commit has happened, and the response is sent after one
   commit when updated_count > 0 and none otherwise *)
C24_CommitOnceAtEnd ==
    \A w \in Workers :
        /\ (inflight[w].op = "bulk" /\ inflight[w].action_ids # <<>>) =>
              /\ inflight[w].commits = 0
              /\ actions = inflight[w].begin.actions
              /\ history = inflight[w].begin.history
        /\ inflight[w].op = "responded" =>
              inflight[w].commits = (IF inflight[w].updated_count > 0 THEN 1 ELSE 0)

C25_Edge(a, b) == [action_id |-> a, depends_on_action_id |-> b, dependency_type |-> "sequential"]

C25_Stored(a, b) ==
    \E d \in DOMAIN dependencies :
        /\ dependencies[d].action_id = a
        /\ dependencies[d].depends_on_action_id = b

C25_Case(c, a, b) ==
    LET r == create_dependency([depends_on_action_id |-> b, dependency_type |-> "sequential"],
                               c, a)
    IN IF FindAction(a, c) /\ FindAction(b, c)
       THEN /\ r.result = "CircularDependency" <=> C25_Stored(b, a)
            /\ r.result = "CircularDependency" => r.store = Store
            /\ ~C25_Stored(b, a) =>
                  /\ r.result = "ok"
                  /\ r.store = [Store EXCEPT !.dependencies = Append(@, C25_Edge(a, b))]
       ELSE /\ r.result = "NotFound"
            /\ r.store = Store

(* C25: add_dependency(a, b) between two actions of the stated complaint is
   rejected with CircularDependency if and only if an edge b -> a is stored;
   in every other case the edge is inserted, an edge that closes a longer
   cycle included; when either action is missing or belongs to another
   complaint it fails with NotFound and inserts nothing *)
C25_OnlyReverseEdgeRejected ==
    \A c \in ComplaintIds, a \in ActionIds, b \in ActionIds : C25_Case(c, a, b)

(* x -> y and y -> z are stored: z -> x, which closes a cycle of length 3, is
   accepted and y -> x is rejected *)
C25_Witness ==
    \E x, y, z \in DOMAIN actions :
        /\ x # y /\ y # z /\ x # z
        /\ C25_Stored(x, y) /\ C25_Stored(y, z)
        /\ create_dependency([depends_on_action_id |-> x, dependency_type |-> "sequential"],
                             actions[z].complaint_id, z).result = "ok"
        /\ create_dependency([depends_on_action_id |-> x, dependency_type |-> "sequential"],
                             actions[y].complaint_id, y).result = "CircularDependency"

C26_Case(c, id) ==
    FindAction(id, c) =>
        \A s \in ActionStatus :
            LET r == update_action("status" :> s, c, id, "System")
            IN /\ r.result = "ok"
               /\ r.store.actions[id].status = s

(* C26: update_action restricts no status transition: a request that sets
   status to any of the six action statuses succeeds from any current status,
   cancelled included, and setting in_progress needs no satisfied
   dependencies *)
C26_AnyTransitionByUpdate == Requests(C26_Case)

(* update_action took a cancelled action to in_progress although one of its
   dependencies is not closed, which start_action refuses *)
C26_Witness ==
    \E h \in DOMAIN history :
        LET id == history[h].action_id
        IN /\ history[h].field_changed = "status"
           /\ history[h].old_value = Some("cancelled")
           /\ history[h].change_reason = None
           /\ actions[id].status = "in_progress"
           /\ UnmetDependency(id)
           /\ ~validate_action_dependencies(id, actions[id].complaint_id)

C27_Case(c, id) ==
    FindAction(id, c) =>
        \A u \in UpdateBodies :
            LET r == update_action(u, c, id, "System")
                rows == Appended(r)
            IN r.result = "ok" =>
                 \A k \in DOMAIN rows :
                     rows[k].new_value =
                         C5_Text(rows[k].field_changed,
                                 r.store.actions[id][rows[k].field_changed])

(* C27: the new_value of every history row update_action writes for a field
   is the value of that field stored on the action after the update, for
   completion_percentage sent together with status closed too *)
C27_NewValueIsStoredValue == Requests(C27_Case)

(* the particular case: completion_percentage 50 sent with status closed *)
C27_PercentageCase(c, id) ==
    FindAction(id, c) =>
        LET r == update_action(("status" :> "closed") @@ ("completion_percentage" :> 50),
                               c, id, "System")
            rows == Appended(r)
        IN \A k \in DOMAIN rows :
               rows[k].field_changed = "completion_percentage" =>
                   rows[k].new_value =
                       Some(ToString(r.store.actions[id].completion_percentage))

C27_PercentageOnly == Requests(C27_PercentageCase)

(* C28: no stored dependency edge has action_id equal to
   depends_on_action_id: a dependency of an action on itself is rejected *)
C28_NoSelfDependency ==
    \A d \in DOMAIN dependencies :
        dependencies[d].action_id # dependencies[d].depends_on_action_id

C29_Cancelled(c) == {i \in DOMAIN actions : actions[i].complaint_id = c /\ actions[i].status = "cancelled"}

(* delete_action leaves every row and every action_number in place *)
C29_DeleteKeepsRows(c, id) ==
    LET r == delete_action(c, id, "System")
    IN /\ Len(r.store.actions) = Len(actions)
       /\ \A i \in DOMAIN actions :
             /\ r.store.actions[i].action_number = actions[i].action_number
             /\ r.store.actions[i].complaint_id = actions[i].complaint_id

C29_Case(c, id) ==
    /\ C29_DeleteKeepsRows(c, id)
    /\ CountOf(actions, c) >= MaxActionsPerComplaint =>
          \A body \in CreateBodies :
              create_action(body, c, "System").result = "LimitExceeded"
    /\ FindAction(id, c) =>
          /\ reorder_actions(c, id, CountOf(actions, c), "System").result = "ok"
          /\ reorder_actions(c, id, CountOf(actions, c) + 1, "System").result # "ok"

(* C29: the cap and the reorder position range count every action row
   whatever its status: cancelling keeps the row and its action_number, a
   complaint with 10 rows accepts no create_action however many of them are
   cancelled, and the last reorder position is the number of rows *)
C29_CancelledRowsCount == Requests(C29_Case)

(* 10 rows of which one is cancelled: create is refused, position 10 is
   accepted *)
C29_Witness ==
    /\ CountOf(actions, 1) = MaxActionsPerComplaint
    /\ C29_Cancelled(1) # {}
    /\ \A body \in CreateBodies : create_action(body, 1, "System").result = "LimitExceeded"
    /\ \E id \in C29_Cancelled(1) :
          /\ actions[id].action_number < MaxActionsPerComplaint
          /\ reorder_actions(1, id, MaxActionsPerComplaint, "System").result = "ok"

(* C30: when create_action requests for one complaint interleave, each
   reading the count and the maximum action_number before the other inserts,
   the complaint has at most 10 actions and no two of its actions share an
   action_number *)
C30_CapAndNumbersUnderRace ==
    \A c \in ComplaintIds :
        /\ CountOf(actions, c) <= MaxActionsPerComplaint
        /\ Cardinality(NumbersOf(actions, c)) = CountOf(actions, c)

(* the cap alone *)
C30_CapUnderRace ==
    \A c \in ComplaintIds : CountOf(actions, c) <= MaxActionsPerComplaint

====
